---- MODULE Spec2Model ----
(***************************************************************************)
(* Model of the batch workflow orchestrator of src/app/flow_scheduler.py:  *)
(* FlowState (cards, need_action, history, processed_batches) and the      *)
(* FlowScheduler driving run_once / run_cycles over injected stage         *)
(* functions (fetch_batches, import_photos, ai_client, mapper, poster).    *)
(*                                                                         *)
(* run_once is a single thread of control; its position is pc.  Each stage *)
(* call of _run_chain is one step, so that intermediate card statuses are  *)
(* visible to the temporal claims.  The stage functions are opaque: their  *)
(* outcome (a returned dict or a raised exception) is chosen from small    *)
(* sets at each call.                                                      *)
(***************************************************************************)
EXTENDS Integers, Sequences, FiniteSets, TLC

VARIABLES
    cards,              \* FlowState.cards: card_id -> CarCard
    need_action,        \* FlowState.need_action: sequence of NeedActionItem
    history,            \* FlowState.history: sequence of PublicationRecord
    processed_batches,  \* FlowState.processed_batches: set of batch ids
    now,                \* int(time.time()): the wall clock in whole seconds
    pc,                 \* position of the scheduler thread
    caller,             \* which entry point the host called last
    cycles_left,        \* run_cycles: iterations of range(cycles) still to do
    batch_ids,          \* run_once local: what fetch_batches returned
    new_batch_ids,      \* run_once local: the filtered list
    index,              \* run_once local: enumerate(..., start=1) position
    cur,                \* run_once local: card_id of the local variable card
    calls,              \* history variable: number of run_once calls started
    admitted,           \* history variable: one entry per card ever created
    prev,               \* history variable: how the previous run_once ended
    at_call,            \* history variable: FlowState when run_once was entered
    run,                \* history variable: bookkeeping of the last run_cycles
    faults,             \* number of non-nominal stage outcomes so far
    resolved,           \* history variable: the last resolve_need_action call
                        \* since run_once was last entered
    CARDS,              \* ui.py: the control panel's registry, card_id -> CarCard
    request,            \* history variable: the last POST the panel handled
    posting             \* history variable: the last post_listing call

vars == <<cards, need_action, history, processed_batches, now, pc, caller,
          cycles_left, batch_ids, new_batch_ids, index, cur, calls, admitted,
          prev, at_call, run, faults, resolved, CARDS, request, posting>>

\* what the steps of the scheduler leave alone: the record of the host's
\* resolve calls, the panel and the poster
panel == <<CARDS, request>>
host == <<resolved, panel, posting>>

flow_state == <<cards, need_action, history, processed_batches>>
locals == <<batch_ids, new_batch_ids, index, cur>>

(***************************************************************************)
(* Bounds of the model.                                                    *)
(***************************************************************************)
MaxFetch == 3       \* longest list fetch_batches returns
MaxCards == 3       \* cards created in one behaviour
MaxCalls == 2       \* run_once calls in one behaviour
MaxTime == 1        \* the clock runs over 0..MaxTime
MaxFaults == 2      \* budget of non-nominal stage outcomes in one behaviour
MaxLogs == 3        \* longest log the control panel's card grows to

\* interval_minutes of the scheduler the repository constructs
IntervalMinutes == 0

None == "None"

\* The batch ids of the source, named in the order in which the source first
\* returns them: batch_1 is the first id fetch_batches ever names, and so on.
BatchName == <<"batch_1", "batch_2", "batch_3">>
Batches == {BatchName[i] : i \in 1..Len(BatchName)}
BatchNo(b) == CHOOSE i \in 1..Len(BatchName) : BatchName[i] = b

BatchLists == UNION {[1..n -> Batches] : n \in 0..MaxFetch}

\* ids names the batches it is the first to name in the order of BatchName,
\* k of them having been named before
RECURSIVE InNamingOrder(_, _)
InNamingOrder(ids, k) ==
    IF Len(ids) = 0 THEN TRUE
    ELSE /\ BatchNo(Head(ids)) <= k + 1
         /\ InNamingOrder(Tail(ids), IF BatchNo(Head(ids)) = k + 1 THEN k + 1 ELSE k)

(***************************************************************************)
(* Python helpers.                                                         *)
(***************************************************************************)
\* dict.get(key, default)
Get(d, key, default) == IF key \in DOMAIN d THEN d[key] ELSE default

\* sep.join(strs)
RECURSIVE Join(_, _)
Join(sep, strs) ==
    IF Len(strs) = 0 THEN ""
    ELSE IF Len(strs) = 1 THEN strs[1]
    ELSE strs[1] \o sep \o Join(sep, Tail(strs))

\* x or y, on strings
OrElse(x, y) == IF x = "" THEN y ELSE x

\* dict[key] = value on a dict whose keys are not known in advance
Put(d, key, value) ==
    [k \in DOMAIN d \cup {key} |-> IF k = key THEN value ELSE d[k]]

Last(s) == s[Len(s)]

(***************************************************************************)
(* Data model.                                                             *)
(***************************************************************************)
\* CarCard(card_id=..., batch_id=..., status=...) with the dataclass defaults
CarCard(card_id, batch_id, status) ==
    [card_id |-> card_id, batch_id |-> batch_id, status |-> status,
     photo_files |-> <<>>, photo_urls |-> <<>>, template_id |-> "sale",
     ai_result |-> None, mapped_avito |-> None, post_url |-> None,
     logs |-> <<>>, errors |-> <<>>]

\* CarCard.log: appends "<timestamp> <message>"
Log(card, message) ==
    [card EXCEPT !.logs = Append(@, <<now, message>>)]

NeedActionItem(card, reason) ==
    [card_id |-> card.card_id, batch_id |-> card.batch_id, reason |-> reason,
     requires_manual_confirmation |-> TRUE]

PublicationRecord(card) ==
    [card_id |-> card.card_id, batch_id |-> card.batch_id,
     post_url |-> card.post_url, status |-> card.status, published_at |-> now]

\* mutant: the record is put at the head of the history
add_history_Prepend(h, card) == <<PublicationRecord(card)>> \o h

\* FlowState.add_history
add_history(h, card) == Append(h, PublicationRecord(card))

\* mutant: the item is queued twice
add_need_action_Twice(q, card, reason) ==
    Append(Append(q, NeedActionItem(card, reason)), NeedActionItem(card, reason))

\* FlowState.add_need_action
add_need_action(q, card, reason) == Append(q, NeedActionItem(card, reason))

\* mutant: list.remove, which drops the first matching entry only
resolve_need_action_FirstOnly(q, card_id) ==
    LET hits == {i \in 1..Len(q) : q[i].card_id = card_id}
        first == CHOOSE i \in hits : \A j \in hits : i <= j
        kept == IF hits = {} THEN q
                ELSE SubSeq(q, 1, first - 1) \o SubSeq(q, first + 1, Len(q))
    IN  [need_action |-> kept, returned |-> Len(kept) < Len(q)]

\* FlowState.resolve_need_action: the new queue and the value returned
resolve_need_action(q, card_id) ==
    LET before == Len(q)
        kept == SelectSeq(q, LAMBDA item : item.card_id # card_id)
    IN  [need_action |-> kept, returned |-> Len(kept) < before]

\* _now_id: f"{prefix}_{int(time.time())}_{index}"
_now_id(prefix, i) == <<prefix, now, i>>

(***************************************************************************)
(* Outcomes of the injected stage functions.                               *)
(***************************************************************************)
Raise(msg) == [kind |-> "raise", exc |-> msg]
Return(d) == [kind |-> "return", value |-> d]

File(b) == "data/" \o b \o "/01.jpg"
PhotoUrl(b) == "https://photo/" \o b \o "/01.jpg"
PostUrl(b) == "https://avito.ru/item/" \o b

\* error lists a stage may report besides a single message
ErrLists == {<<>>, <<"e1", "e2">>, <<"">>, <<"", "">>}

\* Each stage has its nominal outcome, its plain failures (an exception, the
\* documented NEED_ACTION or FAILED result with one message) and its odd
\* results (optional keys absent, unusual error lists, undocumented statuses).
ImportNominal(b) ==
    Return([photo_files |-> <<File(b)>>, photo_urls |-> <<PhotoUrl(b)>>])
ImportPlain == {Raise("import failed")}
ImportOdd(b) ==
    {Return([photo_files |-> <<>>, photo_urls |-> <<>>]),
     Return([photo_urls |-> <<PhotoUrl(b)>>])}
ImportOutcomes(b) == {ImportNominal(b)} \cup ImportPlain \cup ImportOdd(b)

AiNominal == Return([status |-> "AI_READY", ai_result |-> "ai_result"])
AiPlain ==
    {Raise("ai failed"),
     Return([status |-> "NEED_ACTION", errors |-> <<"e1">>])}
AiOdd ==
    {Return([status |-> "NEED_ACTION"]),
     Return([status |-> "FAILED", errors |-> <<"e1">>]),
     Return([ai_result |-> "ai_result"])}
    \cup {Return([status |-> "NEED_ACTION", errors |-> e]) : e \in ErrLists}
AiOutcomes == {AiNominal} \cup AiPlain \cup AiOdd

MapNominal == Return([status |-> "READY_TO_POST", mapped_avito |-> "mapped"])
MapPlain ==
    {Raise("map failed"),
     Return([status |-> "NEED_ACTION", errors |-> <<"e1">>])}
MapOdd ==
    {Return([status |-> "NEED_ACTION"]),
     Return([status |-> "FAILED", errors |-> <<"e1">>]),
     Return([mapped_avito |-> "mapped"])}
    \cup {Return([status |-> "NEED_ACTION", errors |-> e]) : e \in ErrLists}
MapOutcomes == {MapNominal} \cup MapPlain \cup MapOdd

PostNominal(b) ==
    Return([status |-> "POSTED", post_url |-> PostUrl(b), errors |-> <<>>])
PostPlain ==
    {Raise("post failed"),
     Return([status |-> "NEED_ACTION", post_url |-> None,
             errors |-> <<"Captcha required">>]),
     Return([status |-> "FAILED", post_url |-> None, errors |-> <<"e1">>])}
PostOdd(b) ==
    {Return([status |-> "POSTED"]),
     Return([status |-> "NEED_ACTION"]),
     Return([status |-> "NEED_ACTION", post_url |-> PostUrl(b),
             errors |-> <<"e1">>]),
     Return([status |-> "FAILED", post_url |-> PostUrl(b)]),
     Return([post_url |-> PostUrl(b)]),
     Return([status |-> "DRAFT", errors |-> <<"e1", "e2">>])}
    \cup {Return([status |-> "NEED_ACTION", post_url |-> None, errors |-> e]) :
            e \in ErrLists}
PostOutcomes(b) == {PostNominal(b)} \cup PostPlain \cup PostOdd(b)

\* the fault budget: a nominal outcome is free, a plain failure costs one
\* unit and an odd result two
Cost(out, nominal, plain) ==
    IF out = nominal THEN 0 ELSE IF out \in plain THEN 1 ELSE 2
Budget(out, nominal, plain) ==
    /\ faults + Cost(out, nominal, plain) <= MaxFaults
    /\ faults' = faults + Cost(out, nominal, plain)

(***************************************************************************)
(* _run_chain, stage by stage.  Each operator takes the card as the stage  *)
(* call found it and the outcome of the call, and yields the card, the     *)
(* queue, the history and the position after the stage's branch.           *)
(***************************************************************************)
\* mutant: the handler records the error and forgets the status
OnException_KeepStatus(card, exc) ==
    [card EXCEPT !.errors = Append(@, exc)]

\* mutant: the handler rolls back what the earlier stages wrote
OnException_Rollback(card, exc) ==
    [CarCard(card.card_id, card.batch_id, "FAILED") EXCEPT
        !.logs = card.logs, !.errors = Append(card.errors, exc)]

\* except Exception as exc: card.status = "FAILED"; card.errors.append(str(exc))
OnException(card, exc) ==
    [card EXCEPT !.status = "FAILED", !.errors = Append(@, exc)]

Step(card, q, h, next) == [card |-> card, q |-> q, h |-> h, next |-> next]

\* lines 99-103
ImportStage(card0, out, q, h) ==
    LET card == Log(card0, "Importing photos") IN
    IF out.kind = "raise" THEN Step(OnException(card, out.exc), q, h, "mark")
    ELSE Step([card EXCEPT !.photo_files = Get(out.value, "photo_files", <<>>),
                           !.photo_urls = Get(out.value, "photo_urls", <<>>),
                           !.status = "PHOTOS_READY"],
              q, h, "generate")

\* mutant: a generated listing is marked ready to post and mapping is skipped
AiStage_SkipsMap(card0, out, q, h) ==
    LET card == Log(card0, "Running AI") IN
    IF out.kind = "raise"
    THEN [card |-> [card EXCEPT !.status = "FAILED", !.errors = Append(@, out.exc)],
          q |-> q, h |-> h, next |-> "mark"]
    ELSE IF Get(out.value, "status", None) = "NEED_ACTION"
    THEN LET errors == Get(out.value, "errors", <<>>)
             diverted == [card EXCEPT !.status = "NEED_ACTION",
                                      !.errors = @ \o errors]
         IN  [card |-> diverted,
              q |-> Append(q, NeedActionItem(diverted,
                         OrElse(Join("; ", errors), "AI validation failed"))),
              h |-> h, next |-> "mark"]
    ELSE [card |-> [card EXCEPT !.ai_result = Get(out.value, "ai_result", None),
                                !.status = "READY_TO_POST"],
          q |-> q, h |-> h, next |-> "post"]

\* lines 105-114
AiStage(card0, out, q, h) ==
    LET card == Log(card0, "Running AI") IN
    IF out.kind = "raise" THEN Step(OnException(card, out.exc), q, h, "mark")
    ELSE IF Get(out.value, "status", None) = "NEED_ACTION"
    THEN LET errors == Get(out.value, "errors", <<>>)
             diverted == [card EXCEPT !.status = "NEED_ACTION",
                                      !.errors = @ \o errors]
         IN  Step(diverted,
                  add_need_action(q, diverted,
                                  OrElse(Join("; ", errors), "AI validation failed")),
                  h, "mark")
    ELSE Step([card EXCEPT !.ai_result = Get(out.value, "ai_result", None),
                           !.status = "AI_READY"],
              q, h, "map")

\* lines 116-125
MapStage(card0, out, q, h) ==
    LET card == Log(card0, "Mapping to Avito") IN
    IF out.kind = "raise" THEN Step(OnException(card, out.exc), q, h, "mark")
    ELSE IF Get(out.value, "status", None) = "NEED_ACTION"
    THEN LET errors == Get(out.value, "errors", <<>>)
             diverted == [card EXCEPT !.status = "NEED_ACTION",
                                      !.errors = @ \o errors]
         IN  Step(diverted,
                  add_need_action(q, diverted,
                                  OrElse(Join("; ", errors), "Mapping failed")),
                  h, "mark")
    ELSE Step([card EXCEPT !.mapped_avito = Get(out.value, "mapped_avito", None),
                           !.status = "READY_TO_POST"],
              q, h, "post")

\* mutant: the final else branch is missing, an unrecognised status leaves
\* the card as the map stage left it
PostStage_NoElse(card0, out, q, h) ==
    LET card == Log(card0, "Posting to Avito") IN
    IF out.kind = "raise" THEN Step(OnException(card, out.exc), q, h, "mark")
    ELSE
    LET status == Get(out.value, "status", None)
        withurl == [card EXCEPT !.post_url = Get(out.value, "post_url", None)]
        errors == Get(out.value, "errors", <<>>)
    IN  IF status = "POSTED"
        THEN LET posted == [withurl EXCEPT !.status = "POSTED"]
             IN  Step(posted, q, add_history(h, posted), "mark")
        ELSE IF status = "NEED_ACTION"
        THEN LET diverted == [withurl EXCEPT !.status = "NEED_ACTION",
                                             !.errors = @ \o errors]
             IN  Step(diverted,
                      add_need_action(q, diverted,
                          OrElse(Join("; ", errors),
                                 "Captcha or manual confirmation required")),
                      h, "mark")
        ELSE Step(withurl, q, h, "mark")

\* mutant: the publication record is written before the status is looked at
PostStage_RecordsFirst(card0, out, q, h) ==
    LET card == Log(card0, "Posting to Avito") IN
    IF out.kind = "raise" THEN Step(OnException(card, out.exc), q, h, "mark")
    ELSE
    LET status == Get(out.value, "status", None)
        withurl == [card EXCEPT !.post_url = Get(out.value, "post_url", None)]
        errors == Get(out.value, "errors", <<>>)
        h1 == add_history(h, withurl)
    IN  IF status = "POSTED"
        THEN Step([withurl EXCEPT !.status = "POSTED"], q, h1, "mark")
        ELSE IF status = "NEED_ACTION"
        THEN LET diverted == [withurl EXCEPT !.status = "NEED_ACTION",
                                             !.errors = @ \o errors]
             IN  Step(diverted,
                      add_need_action(q, diverted,
                          OrElse(Join("; ", errors),
                                 "Captcha or manual confirmation required")),
                      h1, "mark")
        ELSE Step([withurl EXCEPT !.status = "FAILED", !.errors = @ \o errors],
                  q, h1, "mark")

\* mutant: the final else branch sets the status and drops the result's errors
PostStage_DropsErrors(card0, out, q, h) ==
    LET card == Log(card0, "Posting to Avito") IN
    IF out.kind = "raise" THEN Step(OnException(card, out.exc), q, h, "mark")
    ELSE
    LET status == Get(out.value, "status", None)
        withurl == [card EXCEPT !.post_url = Get(out.value, "post_url", None)]
        errors == Get(out.value, "errors", <<>>)
    IN  IF status = "POSTED"
        THEN LET posted == [withurl EXCEPT !.status = "POSTED"]
             IN  Step(posted, q, add_history(h, posted), "mark")
        ELSE IF status = "NEED_ACTION"
        THEN LET diverted == [withurl EXCEPT !.status = "NEED_ACTION",
                                             !.errors = @ \o errors]
             IN  Step(diverted,
                      add_need_action(q, diverted,
                          OrElse(Join("; ", errors),
                                 "Captcha or manual confirmation required")),
                      h, "mark")
        ELSE Step([withurl EXCEPT !.status = "FAILED"], q, h, "mark")

\* lines 127-143
PostStage(card0, out, q, h) ==
    LET card == Log(card0, "Posting to Avito") IN
    IF out.kind = "raise" THEN Step(OnException(card, out.exc), q, h, "mark")
    ELSE
    LET status == Get(out.value, "status", None)
        withurl == [card EXCEPT !.post_url = Get(out.value, "post_url", None)]
        errors == Get(out.value, "errors", <<>>)
    IN  IF status = "POSTED"
        THEN LET posted == [withurl EXCEPT !.status = "POSTED"]
             IN  Step(posted, q, add_history(h, posted), "mark")
        ELSE IF status = "NEED_ACTION"
        THEN LET diverted == [withurl EXCEPT !.status = "NEED_ACTION",
                                             !.errors = @ \o errors]
             IN  Step(diverted,
                      add_need_action(q, diverted,
                          OrElse(Join("; ", errors),
                                 "Captcha or manual confirmation required")),
                      h, "mark")
        ELSE Step([withurl EXCEPT !.status = "FAILED", !.errors = @ \o errors],
                  q, h, "mark")

(***************************************************************************)
(* run_once.                                                               *)
(***************************************************************************)
\* mutant: the processed set is not consulted
NewBatchIds_NoFilter(ids, processed) == ids

\* [batch_id for batch_id in batch_ids if batch_id not in processed_batches]
NewBatchIds(ids, processed) == SelectSeq(ids, LAMBDA b : b \notin processed)

Snapshot ==
    [cards |-> cards, need_action |-> need_action, history |-> history,
     processed_batches |-> processed_batches]

\* a card id no card has: enumerate starts at 1
UnknownId == <<"card", 0, 0>>

NoResolve == [card_id |-> UnknownId, returned |-> FALSE, called |-> FALSE]

\* entry of run_once, from the host or from run_cycles
EnterRunOnce ==
    /\ calls' = calls + 1
    /\ resolved' = NoResolve
    /\ at_call' = Snapshot
    /\ pc' = "fetch"

\* the trace of the chain of the card being processed
Note(stage, out, status) ==
    admitted' = [admitted EXCEPT ![Len(admitted)] =
                    [@ EXCEPT !.statuses = Append(@, status),
                              !.outcomes = Append(@, [stage |-> stage, out |-> out])]]

\* the host calls scheduler.run_once()
RunOnce ==
    /\ pc = "idle"
    /\ calls < MaxCalls
    /\ caller' = "run_once"
    /\ EnterRunOnce
    /\ UNCHANGED <<panel, posting, flow_state, now, cycles_left, locals, admitted, prev, run,
                   faults>>

\* line 149-150: fetch_batches returns a list
Fetch ==
    /\ pc = "fetch"
    /\ \E ids \in BatchLists :
          /\ InNamingOrder(ids, Cardinality(processed_batches))
          /\ Len(admitted) + Len(NewBatchIds(ids, processed_batches)) <= MaxCards
          /\ batch_ids' = ids
          /\ new_batch_ids' = NewBatchIds(ids, processed_batches)
    /\ index' = 1
    /\ pc' = "loop"
    /\ UNCHANGED <<host, flow_state, now, caller, cycles_left, cur, calls, admitted,
                   prev, at_call, run, faults>>

\* line 149: fetch_batches raises; nothing in run_once or run_cycles catches it
FetchRaises ==
    /\ pc = "fetch"
    /\ faults < MaxFaults
    /\ faults' = faults + 1
    /\ pc' = "idle"
    /\ prev' = [returned |-> FALSE, batch_ids |-> <<>>]
    /\ UNCHANGED <<host, flow_state, now, caller, cycles_left, locals, calls, admitted,
                   at_call, run>>

\* lines 151-152 and _ensure_card (lines 90-95)
EnsureCard ==
    /\ pc = "loop"
    /\ index <= Len(new_batch_ids)
    /\ LET batch_id == new_batch_ids[index]
           card_id == _now_id("card", index)
           card == Log(CarCard(card_id, batch_id, "NEW"), "Card created")
       IN  /\ cards' = Put(cards, card_id, card)
           /\ cur' = card_id
           /\ admitted' = Append(admitted,
                  [card_id |-> card_id, batch_id |-> batch_id, call |-> calls,
                   pos |-> index, statuses |-> <<"NEW">>, outcomes |-> <<>>])
    /\ pc' = "import"
    /\ UNCHANGED <<host, need_action, history, processed_batches, now, caller,
                   cycles_left, batch_ids, new_batch_ids, index, calls, prev,
                   at_call, run, faults>>

Apply(stage, out, r) ==
    /\ cards' = [cards EXCEPT ![cur] = r.card]
    /\ need_action' = r.q
    /\ history' = r.h
    /\ pc' = r.next
    /\ Note(stage, out, r.card.status)
    /\ UNCHANGED <<host, processed_batches, now, caller, cycles_left, locals, calls,
                   prev, at_call, run>>

Import ==
    /\ pc = "import"
    /\ \E out \in ImportOutcomes(cards[cur].batch_id) :
          /\ Budget(out, ImportNominal(cards[cur].batch_id), ImportPlain)
          /\ Apply("import", out, ImportStage(cards[cur], out, need_action, history))

Generate ==
    /\ pc = "generate"
    /\ \E out \in AiOutcomes :
          /\ Budget(out, AiNominal, AiPlain)
          /\ Apply("generate", out, AiStage(cards[cur], out, need_action, history))

Map ==
    /\ pc = "map"
    /\ \E out \in MapOutcomes :
          /\ Budget(out, MapNominal, MapPlain)
          /\ Apply("map", out, MapStage(cards[cur], out, need_action, history))

Post ==
    /\ pc = "post"
    /\ \E out \in PostOutcomes(cards[cur].batch_id) :
          /\ Budget(out, PostNominal(cards[cur].batch_id), PostPlain)
          /\ Apply("post", out, PostStage(cards[cur], out, need_action, history))

\* mutant: a batch is marked processed only when its card was posted
MarkProcessed_OnlyPosted ==
    /\ pc = "mark"
    /\ processed_batches' =
          IF cards[cur].status = "POSTED"
          THEN processed_batches \cup {new_batch_ids[index]}
          ELSE processed_batches
    /\ index' = index + 1
    /\ pc' = "loop"
    /\ UNCHANGED <<host, cards, need_action, history, now, caller, cycles_left,
                   batch_ids, new_batch_ids, cur, calls, admitted, prev,
                   at_call, run, faults>>

\* line 154, and the loop's next iteration
MarkProcessed ==
    /\ pc = "mark"
    /\ processed_batches' = processed_batches \cup {new_batch_ids[index]}
    /\ index' = index + 1
    /\ pc' = "loop"
    /\ UNCHANGED <<host, cards, need_action, history, now, caller, cycles_left,
                   batch_ids, new_batch_ids, cur, calls, admitted, prev,
                   at_call, run, faults>>

\* the for loop of run_once is exhausted: run_once returns
ReturnRunOnce ==
    /\ pc = "loop"
    /\ index > Len(new_batch_ids)
    /\ prev' = [returned |-> TRUE, batch_ids |-> batch_ids]
    /\ pc' = IF caller = "run_cycles" THEN "sleep" ELSE "idle"
    /\ run' = IF caller = "run_cycles" THEN [run EXCEPT !.done = @ + 1] ELSE run
    /\ batch_ids' = <<>>
    /\ new_batch_ids' = <<>>
    /\ index' = 0
    /\ cur' = None
    /\ at_call' = Snapshot
    /\ UNCHANGED <<host, flow_state, now, caller, cycles_left, calls, admitted, faults>>

\* the ids the host resolves: those of the queued items, the id it resolved
\* last, and an id no item has
ResolveIds ==
    {need_action[i].card_id : i \in 1..Len(need_action)}
        \cup {resolved.card_id, UnknownId}

\* mutant: resolving also forgets that the resolved batch was processed
Resolve_Readmits ==
    /\ pc = "idle"
    /\ \E card_id \in ResolveIds :
          LET r == resolve_need_action(need_action, card_id)
          IN  /\ need_action' = r.need_action
              /\ resolved' = [card_id |-> card_id, returned |-> r.returned,
                              called |-> TRUE]
              /\ processed_batches' = processed_batches \
                    {need_action[i].batch_id :
                        i \in {k \in 1..Len(need_action) :
                                  need_action[k].card_id = card_id}}
    /\ UNCHANGED <<panel, posting, cards, history, now, pc, caller,
                   cycles_left, locals, calls, admitted, prev, at_call, run, faults>>

\* the host calls state.resolve_need_action(card_id) between two run_once calls
Resolve ==
    /\ pc = "idle"
    /\ \E card_id \in ResolveIds :
          LET r == resolve_need_action(need_action, card_id)
          IN  /\ need_action' = r.need_action
              /\ resolved' = [card_id |-> card_id, returned |-> r.returned,
                              called |-> TRUE]
    /\ UNCHANGED <<panel, posting, cards, history, processed_batches, now, pc, caller,
                   cycles_left, locals, calls, admitted, prev, at_call, run, faults>>

(***************************************************************************)
(* run_cycles.                                                             *)
(***************************************************************************)
\* the host calls scheduler.run_cycles(n)
RunCycles ==
    /\ pc = "idle"
    /\ caller = "none"
    /\ \E n \in 0..(MaxCalls - calls) :
          /\ cycles_left' = n
          /\ run' = [requested |-> n, done |-> 0, sleeps |-> 0, returned |-> FALSE]
    /\ caller' = "run_cycles"
    /\ pc' = "cycles"
    /\ UNCHANGED <<host, flow_state, now, locals, calls, admitted, prev, at_call, faults>>

\* for _ in range(cycles): the next iteration calls run_once
CyclesNext ==
    /\ pc = "cycles"
    /\ cycles_left > 0
    /\ cycles_left' = cycles_left - 1
    /\ EnterRunOnce
    /\ UNCHANGED <<panel, posting, flow_state, now, caller, locals, admitted, prev, run,
                   faults>>

\* mutant: the loop runs once more than asked, as range(cycles + 1) would
CyclesReturn_OneMore ==
    /\ pc = "cycles"
    /\ cycles_left = 0
    /\ run.done <= run.requested
    /\ IF run.done = run.requested
       THEN /\ EnterRunOnce
            /\ run' = run
       ELSE /\ pc' = "idle"
            /\ run' = [run EXCEPT !.returned = TRUE]
            /\ UNCHANGED <<resolved, calls, at_call>>
    /\ UNCHANGED <<panel, posting, flow_state, now, caller, cycles_left, locals, admitted,
                   prev, faults>>

\* range(cycles) is exhausted: run_cycles returns
CyclesReturn ==
    /\ pc = "cycles"
    /\ cycles_left = 0
    /\ pc' = "idle"
    /\ run' = [run EXCEPT !.returned = TRUE]
    /\ UNCHANGED <<host, flow_state, now, caller, cycles_left, locals, calls, admitted,
                   prev, at_call, faults>>

\* time.sleep(self.interval_minutes * 60)
Sleep ==
    /\ pc = "sleep"
    /\ now + IntervalMinutes * 60 <= MaxTime
    /\ now' = now + IntervalMinutes * 60
    /\ run' = [run EXCEPT !.sleeps = @ + 1]
    /\ pc' = "cycles"
    /\ UNCHANGED <<host, flow_state, caller, cycles_left, locals, calls, admitted,
                   prev, at_call, faults>>

\* The wall clock reaches the next whole second.  It does so between two
\* chains (one chain reads one second), and only while a later _ensure_card
\* can still read it.
Tick ==
    /\ \/ pc = "loop" /\ index <= Len(new_batch_ids)
       \/ pc \in {"idle", "sleep"} /\ calls < MaxCalls
    /\ now < MaxTime
    /\ now' = now + 1
    /\ UNCHANGED <<host, flow_state, pc, caller, cycles_left, locals, calls, admitted,
                   prev, at_call, run, faults>>

(***************************************************************************)
(* The control panel of ui.py: its own CarCard and its registry CARDS,     *)
(* served by a single-threaded HTTPServer, one POST at a time.             *)
(***************************************************************************)
scheduler == <<flow_state, now, pc, caller, cycles_left, locals, calls,
               admitted, prev, at_call, run, faults, resolved>>

\* ui.CarCard(card_id=..., status=..., logs=...) with the dataclass defaults
UiCarCard(card_id, status, logs) ==
    [card_id |-> card_id, status |-> status, photo_urls |-> <<>>,
     ai_result |-> None, mapped_avito |-> None, post_url |-> None,
     logs |-> logs, needs_action |-> FALSE]

\* ui.CarCard.log: appends f"{timestamp}: {message}"
UiLog(card, message) ==
    [card EXCEPT !.logs = Append(@, [at |-> now, text |-> message])]

\* a log line written without a timestamp
Line(text) == [text |-> text]

PanelIds == {"cc_demo", "cc_unknown"}
PanelActions == {"download", "ai", "publish", "need_action", "other"}

\* do_POST, the branches of /action/<card_id>/<action>
action_branch(card, action) ==
    IF action = "download"
    THEN UiLog([card EXCEPT !.status = "PHOTOS_READY",
                            !.photo_urls = <<"https://photo-site.example.com/demo/01.jpg">>],
               "Photos downloaded")
    ELSE IF action = "ai"
    THEN UiLog([card EXCEPT !.status = "AI_READY",
                            !.ai_result = "{title: Demo car, description: Demo description}"],
               "AI result generated")
    ELSE IF action = "publish"
    THEN UiLog([card EXCEPT !.status = "POSTED",
                            !.post_url = "https://avito.example.com/item/demo"],
               "Listing published")
    ELSE IF action = "need_action"
    THEN UiLog([card EXCEPT !.status = "NEED_ACTION", !.needs_action = TRUE],
               "Manual action required")
    ELSE UiLog(card, "Unknown action: " \o action)

\* mutant: the reset forgets the logs
reset_branch_KeepsLogs(card) ==
    [card EXCEPT !.status = "NEW", !.photo_urls = <<>>, !.ai_result = None,
                 !.mapped_avito = None, !.post_url = None,
                 !.needs_action = FALSE, !.logs = Append(@, Line("Reset card"))]

\* do_POST, the branch of /reset/<card_id>
reset_branch(card) ==
    [card EXCEPT !.status = "NEW", !.photo_urls = <<>>, !.ai_result = None,
                 !.mapped_avito = None, !.post_url = None,
                 !.needs_action = FALSE, !.logs = <<Line("Reset card")>>]

\* the record of a POST: its path and the status it found the card in
Request(kind, card_id, action) ==
    [kind |-> kind, card_id |-> card_id, action |-> action,
     found |-> IF card_id \in DOMAIN CARDS THEN CARDS[card_id].status ELSE None]

\* POST /action/<card_id>/<action>
PostAction ==
    /\ \E card_id \in PanelIds, action \in PanelActions :
          /\ IF card_id \notin DOMAIN CARDS THEN CARDS' = CARDS
             ELSE /\ Len(CARDS[card_id].logs) < MaxLogs
                  /\ CARDS' = [CARDS EXCEPT ![card_id] = action_branch(@, action)]
          /\ request' = Request("action", card_id, action)
    /\ UNCHANGED <<scheduler, posting>>

\* POST /reset/<card_id>
PostReset ==
    /\ \E card_id \in PanelIds :
          /\ IF card_id \notin DOMAIN CARDS THEN CARDS' = CARDS
             ELSE CARDS' = [CARDS EXCEPT ![card_id] = reset_branch(@)]
          /\ request' = Request("reset", card_id, None)
    /\ UNCHANGED <<scheduler, posting>>

(***************************************************************************)
(* avito_poster.post_listing: one call, over an injected form_filler and   *)
(* an optional screenshotter.                                              *)
(***************************************************************************)
FormUrl == "https://avito.ru/item/1"

\* a dict with any of the keys status, post_url and error
FillerDicts ==
    {[k \in D |-> full[k]] :
        full \in [status : {"posted", "need_action", "failed", "draft"},
                  post_url : {None, "", FormUrl},
                  error : {None, "", "msg"}],
        D \in SUBSET {"status", "post_url", "error"}}

\* form_filler logs its steps through log_step, then returns a dict or raises
FormFillers ==
    [steps : {<<>>, <<"Filled form">>},
     out : {Return(d) : d \in FillerDicts}
             \cup {Raise("filler failed"), Raise("")}]

\* no screenshotter, one that returns a path, one that raises
Screenshotters == {"None", "returns", "raises"}

ScreenshotPath(reason) == "shots/" \o reason \o ".png"

\* bool(x) of an optional string
Truthy(x) == x \notin {None, ""}

AvitoPostResult(status, post_url, errors, step_log, screenshot_path) ==
    [status |-> status, post_url |-> post_url, errors |-> errors,
     step_log |-> step_log, screenshot_path |-> screenshot_path]

\* lines 38-47: what the try block leaves in status, post_url, error_message
Filled(form_filler) ==
    IF form_filler.out.kind = "raise"
    THEN [status |-> "failed", post_url |-> None,
          error_message |-> form_filler.out.exc]
    ELSE [status |-> Get(form_filler.out.value, "status", None),
          post_url |-> Get(form_filler.out.value, "post_url", None),
          error_message |-> Get(form_filler.out.value, "error", None)]

\* lines 34-77; shots are the reasons the screenshotter was called with
post_listing(form_filler, screenshotter) ==
    LET step_log == <<"Starting Avito form fill">> \o form_filler.steps
        f == Filled(form_filler)
        shoots == f.status \in {"need_action", "failed"} /\ screenshotter # "None"
        shots == IF shoots THEN <<f.status>> ELSE <<>>
        screenshot_path == IF shoots THEN ScreenshotPath(f.status) ELSE None
    IN  IF shoots /\ screenshotter = "raises"
        THEN [out |-> Raise("screenshot failed"), shots |-> shots]
        ELSE IF f.status = "posted" /\ Truthy(f.post_url)
        THEN [out |-> Return(AvitoPostResult("POSTED", f.post_url, <<>>,
                                             step_log, screenshot_path)),
              shots |-> shots]
        ELSE IF f.status = "need_action"
        THEN [out |-> Return(AvitoPostResult("NEED_ACTION", f.post_url,
                         <<IF Truthy(f.error_message) THEN f.error_message
                           ELSE "Manual action required">>,
                         step_log, screenshot_path)),
              shots |-> shots]
        ELSE [out |-> Return(AvitoPostResult("FAILED", f.post_url,
                         <<IF Truthy(f.error_message) THEN f.error_message
                           ELSE "Posting failed">>,
                         step_log, screenshot_path)),
              shots |-> shots]

NoPosting ==
    [called |-> FALSE, form_filler |-> [steps |-> <<>>, out |-> Raise("")],
     screenshotter |-> "None", out |-> Raise(""), shots |-> <<>>]

\* a caller runs post_listing(mapped_avito, photo_files, form_filler=...,
\* screenshotter=...)
PostListing ==
    /\ \E form_filler \in FormFillers, screenshotter \in Screenshotters :
          LET r == post_listing(form_filler, screenshotter)
          IN  posting' = [called |-> TRUE, form_filler |-> form_filler,
                          screenshotter |-> screenshotter,
                          out |-> r.out, shots |-> r.shots]
    /\ UNCHANGED <<scheduler, panel>>

\* the state after construction, f units of the fault budget being spent
Start(f) ==
    /\ posting = NoPosting
    /\ resolved = NoResolve
    /\ CARDS = [id \in {"cc_demo"} |->
                  UiCarCard("cc_demo", "NEW", <<Line("Demo card created")>>)]
    /\ request = [kind |-> "none", card_id |-> None, action |-> None, found |-> None]
    /\ cards = [id \in {} |-> None]
    /\ need_action = <<>>
    /\ history = <<>>
    /\ processed_batches = {}
    /\ now = 0
    /\ pc = "idle"
    /\ caller = "none"
    /\ cycles_left = 0
    /\ batch_ids = <<>>
    /\ new_batch_ids = <<>>
    /\ index = 0
    /\ cur = None
    /\ calls = 0
    /\ admitted = <<>>
    /\ prev = [returned |-> FALSE, batch_ids |-> <<>>]
    /\ at_call = Snapshot
    /\ run = [requested |-> 0, done |-> 0, sleeps |-> 0, returned |-> TRUE]
    /\ faults = f

Init == Start(0)

\* the steps of run_once and the clock
Run ==
    \/ Fetch
    \/ FetchRaises
    \/ EnsureCard
    \/ Import
    \/ Generate
    \/ Map
    \/ Post
    \/ MarkProcessed
    \/ ReturnRunOnce
    \/ Tick

\* the host drives the scheduler by calling run_once
Next ==
    \/ RunOnce
    \/ Run

Spec == Init /\ [][Next]_vars

\* the host drives the scheduler by calling run_cycles
NextCycles ==
    \/ RunCycles
    \/ CyclesNext
    \/ CyclesReturn
    \/ Sleep
    \/ Run

SpecCycles == Init /\ [][NextCycles]_vars

\* the steps of the thread that runs run_cycles: a call that was entered goes
\* on as long as the functions it calls return
Thread ==
    \/ CyclesNext
    \/ CyclesReturn
    \/ Sleep
    \/ Fetch
    \/ EnsureCard
    \/ Import
    \/ Generate
    \/ Map
    \/ Post
    \/ MarkProcessed
    \/ ReturnRunOnce

\* run_cycles under fair scheduling of its thread, with one unit of the fault
\* budget: one call may fail, fetch_batches included
InitFair == Start(MaxFaults - 1)

SpecCyclesFair == InitFair /\ [][NextCycles]_vars /\ WF_vars(Thread)

\* the host calls run_once and, between the calls, resolve_need_action
NextHost ==
    \/ RunOnce
    \/ Resolve
    \/ Run

SpecHost == Init /\ [][NextHost]_vars

\* the operator works the control panel
NextPanel ==
    \/ PostAction
    \/ PostReset
    \/ Tick

SpecPanel == Init /\ [][NextPanel]_vars

\* callers of post_listing
NextPoster == PostListing

SpecPoster == Init /\ [][NextPoster]_vars

TypeOK ==
    /\ pc \in {"idle", "fetch", "loop", "import", "generate", "map", "post",
               "mark", "cycles", "sleep"}
    /\ now \in 0..MaxTime
    /\ processed_batches \subseteq Batches
    /\ faults \in 0..MaxFaults

(***************************************************************************)
(* Vocabulary of the claims.                                               *)
(***************************************************************************)
Range(s) == {s[i] : i \in 1..Len(s)}

\* run_once has fetched and has not returned yet
InCall == pc \in {"loop", "import", "generate", "map", "post", "mark"}

\* the for loop is exhausted: the state run_once returns from
AtReturn == pc = "loop" /\ index > Len(new_batch_ids)

\* a chain is running on the card of the last entry of admitted
InChain == pc \in {"import", "generate", "map", "post", "mark"}

\* the entries of the cards the current run_once call created
Mine == SelectSeq(admitted, LAMBDA e : e.call = calls)

Final(e) == Last(e.statuses)

Terminal == {"POSTED", "NEED_ACTION", "FAILED"}

Pipeline == <<"NEW", "PHOTOS_READY", "AI_READY", "READY_TO_POST", "POSTED">>

StageOrder == <<"import", "generate", "map", "post">>

\* what the transition table of the specification gives for one stage outcome
Verdict(o) ==
    IF o.out.kind = "raise" THEN "FAILED"
    ELSE IF Get(o.out.value, "status", None) = "NEED_ACTION" /\ o.stage # "import"
    THEN "NEED_ACTION"
    ELSE IF o.stage # "post" THEN "advance"
    ELSE IF Get(o.out.value, "status", None) = "POSTED" THEN "POSTED"
    ELSE "FAILED"

\* the entry's chain ran every stage up to its first terminal verdict, and
\* the card ended in the status of that verdict
RanToVerdict(e) ==
    /\ Len(e.outcomes) \in 1..Len(StageOrder)
    /\ \A k \in 1..Len(e.outcomes) : e.outcomes[k].stage = StageOrder[k]
    /\ \A k \in 1..(Len(e.outcomes) - 1) : Verdict(e.outcomes[k]) = "advance"
    /\ Verdict(Last(e.outcomes)) \in Terminal
    /\ Final(e) = Verdict(Last(e.outcomes))

\* the outcome of the stage call of the step just taken
CurEntry == admitted[Len(admitted)]
CurStage == Last(CurEntry.outcomes)
CurOut == CurStage.out
StageStep == pc \in {"import", "generate", "map", "post"} /\ pc' # pc

(***************************************************************************)
(* C1.  Idempotency: when run_once is called twice in a row and            *)
(* fetch_batches returns the same list both times, the second call creates *)
(* no card, invokes no stage function and leaves cards, processed_batches, *)
(* need_action and history as the first call left them.                    *)
(***************************************************************************)
SecondCallSameList == InCall /\ prev.returned /\ batch_ids = prev.batch_ids

C1_Idempotent ==
    SecondCallSameList =>
        /\ new_batch_ids = <<>>
        /\ Mine = <<>>
        /\ Snapshot = at_call

C1_Witness ==
    /\ SecondCallSameList
    /\ AtReturn
    /\ Len(batch_ids) >= 2
    /\ Len(admitted) >= 2
    /\ Range(batch_ids) \subseteq processed_batches

(***************************************************************************)
(* C2.  At-most-once admission: at most one card has ever been created for *)
(* each batch_id, whatever lists fetch_batches returns (a list may name    *)
(* the same id more than once).                                            *)
(***************************************************************************)
C2_OneCardPerBatch ==
    \A i, j \in 1..Len(admitted) :
        i # j => admitted[i].batch_id # admitted[j].batch_id

(***************************************************************************)
(* C3.  Card id uniqueness: every card created receives a card_id          *)
(* different from the id of every card created before it, so that creating *)
(* a card never replaces an entry of state.cards.                          *)
(***************************************************************************)
C3_CardIdsUnique ==
    \A i, j \in 1..Len(admitted) :
        i # j => admitted[i].card_id # admitted[j].card_id

(***************************************************************************)
(* C4.  Isolation: when run_once returns, every batch of the filtered list *)
(* has its card, created in list order; each card ran its own chain up to  *)
(* the first terminal verdict and ended in the status its own stage        *)
(* outcomes give, whatever happened to the other cards (in particular when *)
(* a stage raised for another batch of the same call); and every batch id  *)
(* of the call is in processed_batches.                                    *)
(***************************************************************************)
C4_Isolation ==
    AtReturn =>
        /\ Len(Mine) = Len(new_batch_ids)
        /\ \A i \in 1..Len(Mine) :
              /\ Mine[i].batch_id = new_batch_ids[i]
              /\ RanToVerdict(Mine[i])
              /\ Mine[i].card_id \in DOMAIN cards
              /\ cards[Mine[i].card_id].batch_id = Mine[i].batch_id
              /\ cards[Mine[i].card_id].status = Final(Mine[i])
        /\ Range(new_batch_ids) \subseteq processed_batches

C4_Witness ==
    /\ AtReturn
    /\ new_batch_ids = <<"batch_1", "batch_2", "batch_3">>
    /\ Len(Mine) = 3
    /\ Last(Mine[2].outcomes).out.kind = "raise"
    /\ cards[Mine[1].card_id].status = "POSTED"
    /\ cards[Mine[2].card_id].status = "FAILED"
    /\ cards[Mine[3].card_id].status = "POSTED"
    /\ processed_batches = Batches

(***************************************************************************)
(* C5.  Unconditional marking: when run_once returns, every batch id that  *)
(* fetch_batches returned in that call is in processed_batches, whatever   *)
(* status its card ended in; and a run_once call creates no card for a     *)
(* batch id that was in processed_batches when the call was entered.       *)
(***************************************************************************)
C5_UnconditionalMarking ==
    /\ AtReturn => Range(batch_ids) \subseteq processed_batches
    /\ InCall =>
          \A i \in 1..Len(Mine) :
              Mine[i].batch_id \notin at_call.processed_batches

C5_Witness ==
    /\ AtReturn
    /\ calls = 2
    /\ \E i, j \in 1..Len(admitted) :
          /\ admitted[i].call = 1
          /\ admitted[j].call = 1
          /\ Final(admitted[i]) = "FAILED"
          /\ Final(admitted[j]) = "NEED_ACTION"
          /\ {admitted[i].batch_id, admitted[j].batch_id} \subseteq Range(batch_ids)
    /\ Len(Mine) = 1
    /\ Final(Mine[1]) = "POSTED"

(***************************************************************************)
(* C6.  Admission failure: a fetch_batches that raises aborts no more than *)
(* the processing it belongs to; under run_cycles(n) the remaining cycles  *)
(* still run, so that run_cycles never ends before its n cycles are done.  *)
(***************************************************************************)
C6_RemainingCyclesRun ==
    (caller = "run_cycles" /\ pc = "idle") => run.done = run.requested

(***************************************************************************)
(* C7.  Ordering: cards are created in the order of the filtered list, one *)
(* chain completing before the next card is created; the batch ids (and    *)
(* card ids) of history, read in order, are those of the cards that        *)
(* reached POSTED in the order of their admission, and the need_action     *)
(* queue holds the diverted cards in the order of their admission.         *)
(***************************************************************************)
Ids(seq) == [i \in 1..Len(seq) |-> <<seq[i].card_id, seq[i].batch_id>>]

C7_Ordering ==
    /\ Ids(history) = Ids(SelectSeq(admitted, LAMBDA e : Final(e) = "POSTED"))
    /\ Ids(need_action) =
          Ids(SelectSeq(admitted, LAMBDA e : Final(e) = "NEED_ACTION"))
    /\ \A i \in 1..(Len(admitted) - 1) : Final(admitted[i]) \in Terminal
    /\ InCall =>
          /\ Len(Mine) <= Len(new_batch_ids)
          /\ \A i \in 1..Len(Mine) : Mine[i].batch_id = new_batch_ids[i]

C7_Witness ==
    /\ AtReturn
    /\ new_batch_ids = <<"batch_1", "batch_2", "batch_3">>
    /\ Len(history) = 2
    /\ history[1].batch_id = "batch_1"
    /\ history[2].batch_id = "batch_3"
    /\ Len(need_action) = 1
    /\ need_action[1].batch_id = "batch_2"

(***************************************************************************)
(* C8.  Hard failure: when a stage function raises, the step leaves the    *)
(* card FAILED with exactly the exception text appended to its errors,     *)
(* appends nothing to need_action or history, keeps every field an earlier *)
(* stage wrote, and ends the chain: an exception is always the last stage  *)
(* outcome of its card.                                                    *)
(***************************************************************************)
RaiseStep == StageStep /\ CurOut'.kind = "raise"

C8_RaiseStepEffect ==
    RaiseStep =>
        /\ pc' = "mark"
        /\ cards'[cur].status = "FAILED"
        /\ cards'[cur].errors = Append(cards[cur].errors, CurOut'.exc)
        /\ Len(cards'[cur].errors) = 1
        /\ need_action' = need_action
        /\ history' = history
        /\ cards'[cur].photo_files = cards[cur].photo_files
        /\ cards'[cur].photo_urls = cards[cur].photo_urls
        /\ cards'[cur].ai_result = cards[cur].ai_result
        /\ cards'[cur].mapped_avito = cards[cur].mapped_avito
        /\ cards'[cur].post_url = cards[cur].post_url
        /\ \A id \in DOMAIN cards \ {cur} : cards'[id] = cards[id]

RaiseIsLast ==
    \A i \in 1..Len(admitted) :
        \A k \in 1..(Len(admitted[i].outcomes) - 1) :
            admitted[i].outcomes[k].out.kind # "raise"

C8_HardFailure == []RaiseIsLast /\ [][C8_RaiseStepEffect]_vars

C8_Witness ==
    /\ pc = "mark"
    /\ CurStage.stage = "post"
    /\ CurOut.kind = "raise"
    /\ cards[cur].status = "FAILED"
    /\ cards[cur].errors = <<"post failed">>
    /\ cards[cur].ai_result = "ai_result"
    /\ cards[cur].mapped_avito = "mapped"
    /\ cards[cur].photo_files # <<>>
    /\ cards[cur].post_url = None

(***************************************************************************)
(* C9.  Pipeline order: the statuses a card takes are a prefix of NEW,     *)
(* PHOTOS_READY, AI_READY, READY_TO_POST, POSTED, optionally followed by   *)
(* one of NEED_ACTION or FAILED; NEED_ACTION is never entered from NEW;    *)
(* and the stage functions are invoked at most once each, in the order     *)
(* import, generate, map, post.                                            *)
(***************************************************************************)
PipelineOrder(e) ==
    /\ \E n \in 1..Len(Pipeline) :
          /\ n <= Len(e.statuses)
          /\ SubSeq(e.statuses, 1, n) = SubSeq(Pipeline, 1, n)
          /\ \/ Len(e.statuses) = n
             \/ /\ Len(e.statuses) = n + 1
                /\ e.statuses[n + 1] \in {"NEED_ACTION", "FAILED"}
                /\ e.statuses[n + 1] = "NEED_ACTION" => n >= 2
    /\ Len(e.outcomes) <= Len(StageOrder)
    /\ \A k \in 1..Len(e.outcomes) : e.outcomes[k].stage = StageOrder[k]

C9_PipelineOrder ==
    /\ \A i \in 1..Len(admitted) : PipelineOrder(admitted[i])
    /\ InChain => cards[cur].status = Final(CurEntry)

C9_Witness ==
    /\ pc = "mark"
    /\ CurEntry.statuses = <<"NEW", "PHOTOS_READY", "AI_READY", "NEED_ACTION">>
    /\ \E i \in 1..Len(admitted) : admitted[i].statuses = Pipeline

(***************************************************************************)
(* C10.  Diversion: when the generate, map or post stage returns status    *)
(* NEED_ACTION, the step leaves the card NEED_ACTION with the reported     *)
(* errors appended to its errors, appends exactly one NeedActionItem with  *)
(* the card's card_id and batch_id at the tail of the queue, writes no     *)
(* history record and ends the chain: a NEED_ACTION result is always the   *)
(* last stage outcome of its card.                                         *)
(***************************************************************************)
Diverts(o) ==
    /\ o.stage \in {"generate", "map", "post"}
    /\ o.out.kind = "return"
    /\ Get(o.out.value, "status", None) = "NEED_ACTION"

C10_DivertStepEffect ==
    (StageStep /\ Diverts(CurStage')) =>
        /\ pc' = "mark"
        /\ cards'[cur].status = "NEED_ACTION"
        /\ cards'[cur].errors =
              cards[cur].errors \o Get(CurOut'.value, "errors", <<>>)
        /\ Len(need_action') = Len(need_action) + 1
        /\ SubSeq(need_action', 1, Len(need_action)) = need_action
        /\ Last(need_action').card_id = cards[cur].card_id
        /\ Last(need_action').batch_id = cards[cur].batch_id
        /\ history' = history

DivertIsLast ==
    \A i \in 1..Len(admitted) :
        \A k \in 1..(Len(admitted[i].outcomes) - 1) :
            ~Diverts(admitted[i].outcomes[k])

C10_Diversion == []DivertIsLast /\ [][C10_DivertStepEffect]_vars

C10_Witness ==
    /\ pc = "mark"
    /\ Diverts(CurStage)
    /\ CurStage.stage = "map"
    /\ cards[cur].status = "NEED_ACTION"
    /\ cards[cur].errors = <<"e1">>
    /\ Len(need_action) = 2
    /\ need_action[2].card_id = cur
    /\ need_action[2].batch_id = cards[cur].batch_id

(***************************************************************************)
(* C11.  Resolve: resolve_need_action(card_id) removes from the queue      *)
(* every entry whose card_id is the argument and no other entry, keeps the *)
(* remaining entries in their order, and returns true exactly when an      *)
(* entry was removed; for a card_id with no entry it returns false and     *)
(* leaves the queue unchanged; a second call with the same id returns      *)
(* false.                                                                  *)
(***************************************************************************)
\* a step of a resolve_need_action call (one that changes anything)
ResolveStep ==
    /\ pc = "idle"
    /\ pc' = "idle"
    /\ resolved'.called
    /\ <<need_action', resolved'>> # <<need_action, resolved>>

\* the n-th smallest element of a set of positions
Nth(positions, n) ==
    CHOOSE i \in positions : Cardinality({k \in positions : k < i}) = n - 1

C11_ResolveEffect ==
    ResolveStep =>
        LET id == resolved'.card_id
            hits == {i \in 1..Len(need_action) : need_action[i].card_id = id}
            others == (1..Len(need_action)) \ hits
        IN  /\ \A j \in 1..Len(need_action') : need_action'[j].card_id # id
            /\ Len(need_action') = Cardinality(others)
            /\ \A j \in 1..Len(need_action') :
                  need_action'[j] = need_action[Nth(others, j)]
            /\ resolved'.returned <=> hits # {}
            /\ hits = {} => need_action' = need_action
            /\ (resolved.called /\ resolved.card_id = id) => ~resolved'.returned

C11_Resolve == [][C11_ResolveEffect]_vars

C11_Witness ==
    /\ resolved.called
    /\ resolved.returned
    /\ Len(need_action) = 1
    /\ need_action[1].card_id # resolved.card_id
    /\ \E i \in 1..Len(admitted) :
          /\ admitted[i].card_id = resolved.card_id
          /\ Final(admitted[i]) = "NEED_ACTION"

(***************************************************************************)
(* C12.  Smoke scenario, generalised: starting from an empty FlowState, if *)
(* fetch_batches returns n distinct batch ids, import, generate and map    *)
(* succeed for all of them and the post stage reports NEED_ACTION for k of *)
(* them and POSTED for the rest, then when run_once returns there are n    *)
(* cards, n-k of them POSTED and k NEED_ACTION, history has length n-k and *)
(* the need_action queue has length k.                                     *)
(***************************************************************************)
Distinct(seq) == \A i, j \in 1..Len(seq) : i # j => seq[i] # seq[j]

\* the chain of the entry went through import, generate and map and the post
\* stage reported POSTED or NEED_ACTION
SmokeChain(e) ==
    /\ Len(e.outcomes) = 4
    /\ \A k \in 1..3 : Verdict(e.outcomes[k]) = "advance"
    /\ Verdict(e.outcomes[4]) \in {"POSTED", "NEED_ACTION"}

SmokeCase ==
    /\ AtReturn
    /\ DOMAIN at_call.cards = {}
    /\ at_call.need_action = <<>>
    /\ at_call.history = <<>>
    /\ at_call.processed_batches = {}
    /\ Distinct(batch_ids)
    /\ Len(Mine) = Len(batch_ids)
    /\ \A i \in 1..Len(Mine) : SmokeChain(Mine[i])

WithStatus(status) == {id \in DOMAIN cards : cards[id].status = status}

C12_Smoke ==
    SmokeCase =>
        LET n == Len(batch_ids)
            k == Len(SelectSeq(Mine,
                     LAMBDA e : Verdict(e.outcomes[4]) = "NEED_ACTION"))
        IN  /\ Cardinality(DOMAIN cards) = n
            /\ Cardinality(WithStatus("POSTED")) = n - k
            /\ Cardinality(WithStatus("NEED_ACTION")) = k
            /\ Len(history) = n - k
            /\ Len(need_action) = k

C12_Witness ==
    /\ SmokeCase
    /\ batch_ids = <<"batch_1", "batch_2", "batch_3">>
    /\ Cardinality(WithStatus("POSTED")) = 2
    /\ Len(history) = 2
    /\ Len(need_action) = 1
    /\ need_action[1].batch_id = "batch_3"
    /\ need_action[1].reason = "Captcha required"

(***************************************************************************)
(* C13.  Publication record written exactly once: every card of            *)
(* state.cards with status POSTED has exactly one PublicationRecord in     *)
(* history with its card_id, batch_id and post_url and with status POSTED, *)
(* and every record of history corresponds to such a card; history is      *)
(* append-only: each step extends it and leaves the earlier records as     *)
(* they were.                                                              *)
(***************************************************************************)
RecordOf(card, rec) ==
    /\ rec.card_id = card.card_id
    /\ rec.batch_id = card.batch_id
    /\ rec.post_url = card.post_url
    /\ rec.status = "POSTED"

OneRecordPerPostedCard ==
    /\ \A id \in WithStatus("POSTED") :
          /\ Cardinality({i \in 1..Len(history) : history[i].card_id = id}) = 1
          /\ \E i \in 1..Len(history) : RecordOf(cards[id], history[i])
    /\ \A i \in 1..Len(history) :
          /\ history[i].card_id \in WithStatus("POSTED")
          /\ RecordOf(cards[history[i].card_id], history[i])

HistoryAppendOnly ==
    /\ Len(history') >= Len(history)
    /\ SubSeq(history', 1, Len(history)) = history

C13_PublicationOnce == []OneRecordPerPostedCard /\ [][HistoryAppendOnly]_vars

(***************************************************************************)
(* C14.  post_url is set only on successful posting: in every reachable    *)
(* state a card whose post_url is not None has status POSTED; a card the   *)
(* post stage diverted to NEED_ACTION or marked FAILED has post_url None,  *)
(* even when the result of the post stage carried a post_url.              *)
(***************************************************************************)
C14_PostUrlOnlyWhenPosted ==
    \A id \in DOMAIN cards :
        cards[id].post_url # None => cards[id].status = "POSTED"

(***************************************************************************)
(* C15.  At most one outstanding need-action entry per card: after any     *)
(* sequence of run_once and resolve_need_action calls the need_action      *)
(* queue never holds two entries with the same card_id.                    *)
(***************************************************************************)
C15_OneEntryPerCard ==
    \A i, j \in 1..Len(need_action) :
        i # j => need_action[i].card_id # need_action[j].card_id

(***************************************************************************)
(* C16.  Cards are never deleted: for every batch id in processed_batches  *)
(* the card that was created for it is still in state.cards under its      *)
(* card_id, with the fields its own chain wrote; the number of cards in    *)
(* state.cards equals the number of cards ever created and never           *)
(* decreases.                                                              *)
(***************************************************************************)
CardsKept ==
    /\ \A i \in 1..Len(admitted) :
          admitted[i].batch_id \in processed_batches =>
              /\ admitted[i].card_id \in DOMAIN cards
              /\ cards[admitted[i].card_id].batch_id = admitted[i].batch_id
              /\ cards[admitted[i].card_id].status = Final(admitted[i])
    /\ Cardinality(DOMAIN cards) = Len(admitted)

CardsNotFewer == Cardinality(DOMAIN cards') >= Cardinality(DOMAIN cards)

C16_CardsNeverDeleted == []CardsKept /\ [][CardsNotFewer]_vars

(***************************************************************************)
(* C17.  Settled snapshot: whenever run_once has returned, that is in      *)
(* every state observable between two calls or cycles, every card created  *)
(* by the scheduler has status POSTED, NEED_ACTION or FAILED, never NEW,   *)
(* PHOTOS_READY, AI_READY or READY_TO_POST, and its batch_id is in         *)
(* processed_batches.                                                      *)
(***************************************************************************)
\* run_once is not running
Between == pc \in {"idle", "sleep", "cycles"}

C17_SettledSnapshot ==
    (Between \/ AtReturn) =>
        /\ \A id \in DOMAIN cards :
              /\ cards[id].status \in Terminal
              /\ cards[id].batch_id \in processed_batches
        /\ \A i \in 1..Len(admitted) :
              /\ Final(admitted[i]) \in Terminal
              /\ admitted[i].batch_id \in processed_batches

C17_Witness ==
    /\ pc = "sleep"
    /\ run.done = 1
    /\ WithStatus("POSTED") # {}
    /\ WithStatus("NEED_ACTION") # {}
    /\ WithStatus("FAILED") # {}

(***************************************************************************)
(* C18.  Reset: resetting a card whose status is POSTED (the control       *)
(* panel's /reset/<card_id>) leaves it with status NEW, with post_url,     *)
(* ai_result and the mapped payload all None, with photo_urls empty and    *)
(* the needs-action flag false, and with logs equal to the one-element     *)
(* sequence holding the reset marker; resetting an unknown card id changes *)
(* no card.                                                                *)
(***************************************************************************)
\* a step that handles POST /reset/<card_id>
ResetStep == request'.kind = "reset" /\ now' = now

C18_ResetEffect ==
    ResetStep =>
        LET id == request'.card_id
        IN  /\ (id \in DOMAIN CARDS /\ CARDS[id].status = "POSTED") =>
                  /\ DOMAIN CARDS' = DOMAIN CARDS
                  /\ CARDS'[id].card_id = id
                  /\ CARDS'[id].status = "NEW"
                  /\ CARDS'[id].post_url = None
                  /\ CARDS'[id].ai_result = None
                  /\ CARDS'[id].mapped_avito = None
                  /\ CARDS'[id].photo_urls = <<>>
                  /\ CARDS'[id].needs_action = FALSE
                  /\ CARDS'[id].logs = <<[text |-> "Reset card"]>>
            /\ id \notin DOMAIN CARDS => CARDS' = CARDS

C18_Reset == [][C18_ResetEffect]_vars

C18_Witness ==
    /\ request.kind = "reset"
    /\ request.card_id = "cc_demo"
    /\ request.found = "POSTED"
    /\ CARDS["cc_demo"].status = "NEW"
    /\ CARDS["cc_demo"].logs = <<[text |-> "Reset card"]>>

(***************************************************************************)
(* C19.  No automatic retry: run_once never invokes a stage function for a *)
(* batch that is already in processed_batches and never changes any field  *)
(* of a card that existed before the call; a card that ended FAILED or     *)
(* NEED_ACTION keeps its status across every later run_once, whatever      *)
(* fetch_batches returns.                                                  *)
(***************************************************************************)
C19_NoAutomaticRetry ==
    /\ pc \in {"import", "generate", "map", "post"} =>
          cards[cur].batch_id \notin processed_batches
    /\ InCall =>
          \A id \in DOMAIN at_call.cards :
              /\ id \in DOMAIN cards
              /\ cards[id] = at_call.cards[id]

(***************************************************************************)
(* C20.  Fields are never cleared and logs are append-only under the       *)
(* scheduler: across run_once and resolve_need_action calls every card's   *)
(* logs and errors only grow by appending at the end, and once a card's    *)
(* ai_result, mapped payload or post_url holds a value other than None it  *)
(* keeps that value in every later state.                                  *)
(***************************************************************************)
Extends(longer, shorter) ==
    /\ Len(longer) >= Len(shorter)
    /\ SubSeq(longer, 1, Len(shorter)) = shorter

Keeps(before, after) == before # None => after = before

C20_CardStep ==
    \A id \in DOMAIN cards :
        /\ id \in DOMAIN cards'
        /\ Extends(cards'[id].logs, cards[id].logs)
        /\ Extends(cards'[id].errors, cards[id].errors)
        /\ Keeps(cards[id].ai_result, cards'[id].ai_result)
        /\ Keeps(cards[id].mapped_avito, cards'[id].mapped_avito)
        /\ Keeps(cards[id].post_url, cards'[id].post_url)

C20_NeverCleared == [][C20_CardStep]_vars

(***************************************************************************)
(* C21.  Diversion reason: the reason of the NeedActionItem appended on a  *)
(* diversion is the stage's reported error strings joined with "; " when   *)
(* the stage reported at least one non-empty error, and a fixed generic    *)
(* message otherwise ("AI validation failed" for generate, "Mapping        *)
(* failed" for map, "Captcha or manual confirmation required" for post);   *)
(* the reason is never the empty string.                                   *)
(***************************************************************************)
GenericReason(stage) ==
    IF stage = "generate" THEN "AI validation failed"
    ELSE IF stage = "map" THEN "Mapping failed"
    ELSE "Captcha or manual confirmation required"

C21_ReasonOfStep ==
    (StageStep /\ Diverts(CurStage')) =>
        LET errors == Get(CurOut'.value, "errors", <<>>)
            reason == Last(need_action').reason
        IN  /\ (\E i \in 1..Len(errors) : errors[i] # "") =>
                  reason = Join("; ", errors)
            /\ (\A i \in 1..Len(errors) : errors[i] = "") =>
                  reason = GenericReason(CurStage'.stage)
            /\ reason # ""

C21_DiversionReason == [][C21_ReasonOfStep]_vars

(***************************************************************************)
(* C22.  run_cycles(n) performs exactly n run_once calls, each followed by *)
(* one idle wait of interval_minutes*60 seconds, and then returns,         *)
(* provided every fetch_batches and stage call returns; run_cycles(0)      *)
(* performs no run_once and changes no state.                              *)
(***************************************************************************)
InRunCycles == caller = "run_cycles"

CycleCounts ==
    /\ (InRunCycles /\ pc = "cycles") =>
          /\ run.done + cycles_left = run.requested
          /\ run.sleeps = run.done
    /\ (InRunCycles /\ pc = "sleep") =>
          /\ run.done + cycles_left = run.requested
          /\ run.sleeps + 1 = run.done
    /\ (InRunCycles /\ InCall) => run.sleeps = run.done
    /\ (InRunCycles /\ pc = "idle" /\ ~run.returned) =>
          /\ calls >= 1
          /\ ~prev.returned
    /\ (InRunCycles /\ run.returned) =>
          /\ pc = "idle"
          /\ calls = run.requested
          /\ run.done = run.requested
          /\ run.sleeps = run.requested
          /\ run.requested = 0 =>
                /\ DOMAIN cards = {}
                /\ need_action = <<>>
                /\ history = <<>>
                /\ processed_batches = {}

\* the idle wait lasts interval_minutes * 60 seconds
WaitStep ==
    (pc = "sleep" /\ pc' = "cycles") => now' = now + IntervalMinutes * 60

C22_RunCycles ==
    /\ []CycleCounts
    /\ [][WaitStep]_vars
    /\ (InRunCycles ~> pc = "idle")

C22_Witness ==
    /\ InRunCycles
    /\ run.returned
    /\ run.requested = 2
    /\ run.sleeps = 2
    /\ Len(admitted) >= 2

(***************************************************************************)
(* C23.  Empty import fails downstream: if import_photos returns a result  *)
(* with no photos (photo_files empty or absent) for a batch, the chain of  *)
(* that card fails at a later stage: the card never reaches POSTED and no  *)
(* history record is written for it.                                       *)
(***************************************************************************)
EmptyImport(e) ==
    /\ Len(e.outcomes) >= 1
    /\ e.outcomes[1].out.kind = "return"
    /\ Get(e.outcomes[1].out.value, "photo_files", <<>>) = <<>>

C23_EmptyImportFails ==
    \A i \in 1..Len(admitted) :
        EmptyImport(admitted[i]) =>
            /\ "POSTED" \notin Range(admitted[i].statuses)
            /\ \A j \in 1..Len(history) :
                  ~(/\ history[j].card_id = admitted[i].card_id
                    /\ history[j].batch_id = admitted[i].batch_id)

(***************************************************************************)
(* C24.  A card advances only on reported success: its status becomes      *)
(* AI_READY only if the generate stage returned status AI_READY, and       *)
(* READY_TO_POST only if the map stage returned status READY_TO_POST; a    *)
(* result whose status is absent or is any other value does not advance    *)
(* the card and does not set ai_result or the mapped payload.              *)
(***************************************************************************)
\* the step just taken called the stage and the stage returned
Returned(stage) ==
    /\ StageStep
    /\ CurStage'.stage = stage
    /\ CurOut'.kind = "return"

Reported(status) == Get(CurOut'.value, "status", None) = status

C24_AdvanceStep ==
    /\ StageStep =>
          /\ (cards'[cur].status = "AI_READY" /\ cards[cur].status # "AI_READY") =>
                (Returned("generate") /\ Reported("AI_READY"))
          /\ (cards'[cur].status = "READY_TO_POST"
                 /\ cards[cur].status # "READY_TO_POST") =>
                (Returned("map") /\ Reported("READY_TO_POST"))
    /\ (Returned("generate") /\ ~Reported("AI_READY")) =>
          /\ cards'[cur].status # "AI_READY"
          /\ cards'[cur].ai_result = cards[cur].ai_result
    /\ (Returned("map") /\ ~Reported("READY_TO_POST")) =>
          /\ cards'[cur].status # "READY_TO_POST"
          /\ cards'[cur].mapped_avito = cards[cur].mapped_avito

C24_AdvanceOnlyOnSuccess == [][C24_AdvanceStep]_vars

(***************************************************************************)
(* C25.  Post stage default is FAILED: when the post stage returns without *)
(* raising and its status is neither POSTED nor NEED_ACTION (FAILED, any   *)
(* unknown value, or absent), the card's status becomes FAILED, the        *)
(* result's errors are appended to card.errors, and neither history nor    *)
(* the need_action queue gains an entry.                                   *)
(***************************************************************************)
PostDefault ==
    /\ Returned("post")
    /\ ~Reported("POSTED")
    /\ ~Reported("NEED_ACTION")

C25_PostDefaultStep ==
    PostDefault =>
        /\ cards'[cur].status = "FAILED"
        /\ cards'[cur].errors =
              cards[cur].errors \o Get(CurOut'.value, "errors", <<>>)
        /\ history' = history
        /\ need_action' = need_action

C25_PostDefaultFailed == [][C25_PostDefaultStep]_vars

\* the post stage has just returned an unknown status with two messages
C25_Witness ==
    /\ pc = "mark"
    /\ CurStage.stage = "post"
    /\ CurOut.kind = "return"
    /\ Get(CurOut.value, "status", None) = "DRAFT"
    /\ cards[cur].status = "FAILED"
    /\ cards[cur].errors = <<"e1", "e2">>

(***************************************************************************)
(* C26.  Queue and status agree: after any sequence of run_once calls (no  *)
(* resolve, no reset), every entry of the need_action queue names a card   *)
(* that exists in state.cards with the same batch_id and with status       *)
(* NEED_ACTION, and every card with status NEED_ACTION has an entry in the *)
(* queue.                                                                  *)
(***************************************************************************)
QueueNamesDivertedCards ==
    \A i \in 1..Len(need_action) :
        /\ need_action[i].card_id \in DOMAIN cards
        /\ cards[need_action[i].card_id].batch_id = need_action[i].batch_id
        /\ cards[need_action[i].card_id].status = "NEED_ACTION"

DivertedCardsQueued ==
    \A id \in DOMAIN cards :
        cards[id].status = "NEED_ACTION" =>
            \E i \in 1..Len(need_action) : need_action[i].card_id = id

C26_QueueAndStatusAgree ==
    pc = "idle" => (QueueNamesDivertedCards /\ DivertedCardsQueued)

(***************************************************************************)
(* C27.  Resolve touches only the queue: resolve_need_action(card_id)      *)
(* leaves state.cards (including the status of the resolved card, which    *)
(* stays NEED_ACTION), history and processed_batches unchanged, and it     *)
(* does not cause any stage of the resolved card's chain to run then or in *)
(* any later run_once.                                                     *)
(***************************************************************************)
\* the chain of admitted[i] ended in NEED_ACTION and its item has been resolved
ResolvedEntry(i) ==
    /\ Final(admitted[i]) = "NEED_ACTION"
    /\ \A k \in 1..Len(need_action) :
          need_action[k].card_id # admitted[i].card_id

C27_ResolveFrame ==
    ResolveStep =>
        /\ cards' = cards
        /\ history' = history
        /\ processed_batches' = processed_batches
        /\ admitted' = admitted
        /\ locals' = locals

\* no stage is noted on a resolved chain, and no new chain starts for its batch
C27_NoRerun ==
    \A i \in 1..Len(admitted) :
        ResolvedEntry(i) =>
            /\ Len(admitted') >= Len(admitted)
            /\ admitted'[i] = admitted[i]
            /\ Len(admitted') > Len(admitted) =>
                  Last(admitted').batch_id # admitted[i].batch_id

C27_ResolveOnlyQueue == [][C27_ResolveFrame /\ C27_NoRerun]_vars

\* a card diverted in the first call was resolved, the second call fetched
\* its batch again and has returned, and the card is as the chain left it
C27_Witness ==
    /\ pc = "idle"
    /\ calls = 2
    /\ prev.returned
    /\ ~resolved.called
    /\ \E i \in 1..Len(admitted) :
          /\ admitted[i].call = 1
          /\ ResolvedEntry(i)
          /\ admitted[i].batch_id \in Range(prev.batch_ids)
          /\ cards[admitted[i].card_id].batch_id = admitted[i].batch_id
          /\ cards[admitted[i].card_id].status = "NEED_ACTION"

(***************************************************************************)
(* C28.  post_listing result mapping: post_listing returns status POSTED   *)
(* only when form_filler returned status "posted" together with a          *)
(* non-empty post_url, and then with an empty errors list; it returns      *)
(* NEED_ACTION exactly when form_filler returned "need_action"; in every   *)
(* other case, including form_filler raising or returning "posted" without *)
(* a URL, it returns FAILED; every NEED_ACTION or FAILED result carries    *)
(* exactly one non-empty error string, and the screenshotter is called     *)
(* only for need_action or failed outcomes.                                *)
(***************************************************************************)
FillerReturned(status) ==
    /\ posting.form_filler.out.kind = "return"
    /\ Get(posting.form_filler.out.value, "status", None) = status

FillerUrl == Get(posting.form_filler.out.value, "post_url", None)

ResultMapping ==
    /\ posting.out.kind = "return"
    /\ LET result == posting.out.value
           posted == FillerReturned("posted") /\ FillerUrl \notin {None, ""}
       IN  /\ result.status = "POSTED" <=> posted
           /\ result.status = "POSTED" => result.errors = <<>>
           /\ result.status = "NEED_ACTION" <=> FillerReturned("need_action")
           /\ (~posted /\ ~FillerReturned("need_action")) =>
                 result.status = "FAILED"
           /\ result.status \in {"NEED_ACTION", "FAILED"} =>
                 (Len(result.errors) = 1 /\ result.errors[1] # "")

ScreenshotOnlyOnFailure ==
    posting.shots # <<>> =>
        \/ posting.form_filler.out.kind = "raise"
        \/ FillerReturned("need_action")
        \/ FillerReturned("failed")

C28_PostListingMapping ==
    posting.called => (ResultMapping /\ ScreenshotOnlyOnFailure)

====
